---- MODULE Spec2Model ----
(***************************************************************************)
(* A model of the ISMP handler core (polytope-labs/ismp-rs): the consensus *)
(* update pipeline, the shared request/response/timeout preamble and the   *)
(* handlers built on it, run against the mock host of the test suite.      *)
(* Durations are whole seconds; opaque proofs carry the verdict and the    *)
(* outputs that the consensus client's verification would compute.         *)
(***************************************************************************)
EXTENDS Integers, Sequences, FiniteSets, TLC

\* ------------------------------------------------------------------ bounds
MaxHeight == 2
MaxIntermediates == 2
UnbondingPeriod == 2
MaxTime == UnbondingPeriod + 1

\* --------------------------------------------------------------- universe
HostStateMachine == "Polkadot"
StateMachines == {"Ethereum", "Kusama"}
ConsensusStateIds == {"s1"}
KnownClients == {"eth", "mock"}

\* The client of a test host whose challenge period is twice the unbonding
\* period of its consensus clients.
DummyClients == {"dummy"}
ConsensusClientIds == KnownClients \cup {"unknown"}
TrustedStates == {"t0", "t1"}
Heights == 1..MaxHeight

NoClient == "none"
NoState == "none"
NoTime == -1
NoHeight == -1

StateMachineIds == [state_id : StateMachines, consensus_state_id : ConsensusStateIds]
StateMachineHeights == [id : StateMachineIds, height : Heights]

StateCommitments ==
    { [timestamp |-> 1, root |-> "r1"], [timestamp |-> 2, root |-> "r2"] }
NoCommitment == [timestamp |-> -1, root |-> "none"]

\* Verified intermediate states: every height of one state machine with a
\* commitment other than the genesis one, its first height with the genesis
\* commitment too, and one state of a second state machine.
IntermediateStates ==
    [state_id : {"Ethereum"}, height : Heights, commitment : {[timestamp |-> 2, root |-> "r2"]}]
    \cup [state_id : {"Ethereum", "Kusama"}, height : {1},
          commitment : {[timestamp |-> 1, root |-> "r1"]}]

GenesisCommitments ==
    [id : { i \in StateMachineIds : i.state_id = "Ethereum" }, height : Heights,
     commitment : { [timestamp |-> 1, root |-> "r1"] }]

\* The heights the host operator freezes.
FreezableHeights == { sh \in StateMachineHeights : sh.id.state_id = "Ethereum" }

\* The lists of at most n entries of S, no entry repeated.
RECURSIVE SeqsUpTo(_, _)
SeqsUpTo(S, n) ==
    IF n = 0 THEN { <<>> }
    ELSE LET shorter == SeqsUpTo(S, n - 1)
             longest == { t \in shorter : Len(t) = n - 1 }
         IN shorter \cup
            { Append(p[1], p[2]) :
                p \in { q \in longest \X S : \A i \in 1..Len(q[1]) : q[1][i] # q[2] } }

\* An outbound request (source is the host) and an inbound one.
Requests ==
    { [source_chain |-> HostStateMachine, dest_chain |-> "Kusama", nonce |-> 0, timeout_timestamp |-> 1],
      [source_chain |-> "Kusama", dest_chain |-> HostStateMachine, nonce |-> 0, timeout_timestamp |-> 1] }

VARIABLES host, last
vars == <<host, last>>

\* ------------------------------------------------------------------- host
\* A host as it is constructed: nothing stored, nothing frozen.
DefaultHost ==
    [ now |-> 0,
      consensus_states |-> [s \in ConsensusStateIds |-> NoState],
      consensus_state_client |-> [s \in ConsensusStateIds |-> NoClient],
      consensus_update_time |-> [s \in ConsensusStateIds |-> NoTime],
      frozen_consensus_clients |-> {},
      state_commitments |-> [sh \in StateMachineHeights |-> NoCommitment],
      latest_state_height |-> [id \in StateMachineIds |-> NoHeight],
      frozen_state_machines |-> [id \in StateMachineIds |-> NoHeight],
      requests |-> {},
      responses |-> {} ]

challenge_period_one(id) == 1

challenge_period(id) ==
    IF id = "eth" THEN 0 ELSE IF id \in DummyClients THEN 2 * UnbondingPeriod ELSE 1

unbonding_period_long(id) == UnbondingPeriod + 1

unbonding_period(id) == UnbondingPeriod

consensus_client_from_state_id(h, sid) == h.consensus_state_client[sid]

consensus_client(id) == id \in KnownClients \cup DummyClients

latest_commitment_height_unset(h, id) == h.latest_state_height[id]

latest_commitment_height(h, id) ==
    IF h.latest_state_height[id] = NoHeight THEN 0 ELSE h.latest_state_height[id]

state_machine_commitment(h, height) == h.state_commitments[height]

is_frozen_from(h, height) ==
    IF h.frozen_state_machines[height.id] = NoHeight THEN FALSE
    ELSE height.height >= h.frozen_state_machines[height.id]

is_frozen(h, height) ==
    IF h.frozen_state_machines[height.id] = NoHeight THEN FALSE
    ELSE h.frozen_state_machines[height.id] >= height.height

is_consensus_client_frozen(h, sid) == sid \in h.frozen_consensus_clients

SaturatingSub(a, b) == IF a >= b THEN a - b ELSE 0

is_expired_ge(h, cid, sid) ==
    SaturatingSub(h.now, h.consensus_update_time[sid]) >= unbonding_period(cid)

is_expired(h, cid, sid) ==
    SaturatingSub(h.now, h.consensus_update_time[sid]) > unbonding_period(cid)

request_commitment_any(h, req) == TRUE

request_commitment(h, req) == req \in h.requests

delete_request_commitment_keeps(h, req) == h

delete_request_commitment(h, req) == [h EXCEPT !.requests = @ \ {req}]

freeze_state_machine(h, height) ==
    [h EXCEPT !.frozen_state_machines[height.id] = height.height]

freeze_consensus_client(h, sid) ==
    [h EXCEPT !.frozen_consensus_clients = @ \cup {sid}]

store_state_machine_commitment_drops(h, height, c) == h

store_state_machine_commitment(h, height, c) ==
    [h EXCEPT !.state_commitments[height] = c]

store_latest_commitment_height(h, height) ==
    [h EXCEPT !.latest_state_height[height.id] = height.height]

\* The outcome of one call: its result, the host it leaves, the transitions a
\* consensus update reports and the requests it handed to the router.
Result(res, h, updates, dispatched) ==
    [res |-> res, host |-> h, state_updates |-> updates, dispatched |-> dispatched]

Err(h, e) == Result(e, h, {}, {})

\* ------------------------------------------------------------------ router
\* The router of the test suite builds a host of its own, records the
\* commitment of an outgoing request or response there and answers success;
\* the host it was asked by is not touched.
dispatch(h, request) ==
    LET fresh == DefaultHost
        written == IF request.dest_chain # HostStateMachine
                   THEN [fresh EXCEPT !.requests = @ \cup {request}]
                   ELSE fresh
    IN Result("Ok", h, {}, {})

write_response(h, response) ==
    LET fresh == DefaultHost
        written == IF response.request.source_chain # HostStateMachine
                   THEN [fresh EXCEPT !.responses = @ \cup {response}]
                   ELSE fresh
    IN Result("Ok", h, {}, {})

\* ------------------------------------------------------ consensus handler
ChallengePeriodNotElapsed_lt(now, update_time, delay) == (now - update_time) < delay

ChallengePeriodNotElapsed(now, update_time, delay) == (now - update_time) <= delay

OlderThanLatest_never(previous_latest_height, height) == FALSE

OlderThanLatest(previous_latest_height, height) == previous_latest_height > height

SkipFrozen_never(h, state_height) == FALSE

SkipFrozen(h, state_height) == is_frozen(h, state_height)

DuplicateState_never(h, state_height) == FALSE

DuplicateState(h, state_height) == state_machine_commitment(h, state_height) # NoCommitment

RECURSIVE ApplyIntermediates(_, _, _, _)
ApplyIntermediates(h, sid, states, updates) ==
    IF states = <<>> THEN [host |-> h, state_updates |-> updates]
    ELSE
      LET s == Head(states)
          id == [state_id |-> s.state_id, consensus_state_id |-> sid]
          state_height == [id |-> id, height |-> s.height]
          previous_latest_height == latest_commitment_height(h, id)
      IN IF SkipFrozen(h, state_height)
           THEN ApplyIntermediates(h, sid, Tail(states), updates)
         ELSE IF OlderThanLatest(previous_latest_height, s.height)
           THEN ApplyIntermediates(h, sid, Tail(states), updates)
         ELSE IF DuplicateState(h, state_height)
           THEN ApplyIntermediates(h, sid, Tail(states), updates)
         ELSE ApplyIntermediates(
                store_latest_commitment_height(
                    store_state_machine_commitment(h, state_height, s.commitment),
                    state_height),
                sid, Tail(states),
                updates \cup { <<[id |-> id, height |-> previous_latest_height], state_height>> })

update_client_keeps_time(h, msg) ==
    LET sid == msg.consensus_state_id
        cid == consensus_client_from_state_id(h, sid)
        update_time == h.consensus_update_time[sid]
        delay == challenge_period(cid)
    IN IF cid = NoClient THEN Err(h, "ConsensusStateIdNotRecognized")
       ELSE IF ~consensus_client(cid) THEN Err(h, "UnknownConsensusClient")
       ELSE IF h.consensus_states[sid] = NoState THEN Err(h, "ConsensusStateNotFound")
       ELSE IF update_time = NoTime THEN Err(h, "ImplementationSpecific")
       ELSE IF is_consensus_client_frozen(h, sid) THEN Err(h, "FrozenConsensusClient")
       ELSE IF ChallengePeriodNotElapsed(h.now, update_time, delay)
         THEN Err(h, "ChallengePeriodNotElapsed")
       ELSE IF is_expired(h, cid, sid) THEN Err(h, "UnbondingPeriodElapsed")
       ELSE IF ~msg.consensus_proof.valid THEN Err(h, "ConsensusProofVerificationFailed")
       ELSE
         LET h1 == [h EXCEPT !.consensus_states[sid] = msg.consensus_proof.new_state]
             r == ApplyIntermediates(h1, sid, msg.consensus_proof.intermediates, {})
         IN Result("Ok", r.host, r.state_updates, {})

update_client_expiry_first(h, msg) ==
    LET sid == msg.consensus_state_id
        cid == consensus_client_from_state_id(h, sid)
        update_time == h.consensus_update_time[sid]
        delay == challenge_period(cid)
    IN IF cid = NoClient THEN Err(h, "ConsensusStateIdNotRecognized")
       ELSE IF ~consensus_client(cid) THEN Err(h, "UnknownConsensusClient")
       ELSE IF h.consensus_states[sid] = NoState THEN Err(h, "ConsensusStateNotFound")
       ELSE IF update_time = NoTime THEN Err(h, "ImplementationSpecific")
       ELSE IF is_consensus_client_frozen(h, sid) THEN Err(h, "FrozenConsensusClient")
       ELSE IF is_expired(h, cid, sid) THEN Err(h, "UnbondingPeriodElapsed")
       ELSE IF ChallengePeriodNotElapsed(h.now, update_time, delay)
         THEN Err(h, "ChallengePeriodNotElapsed")
       ELSE IF ~msg.consensus_proof.valid THEN Err(h, "ConsensusProofVerificationFailed")
       ELSE
         LET h1 == [h EXCEPT !.consensus_states[sid] = msg.consensus_proof.new_state,
                             !.consensus_update_time[sid] = h.now]
             r == ApplyIntermediates(h1, sid, msg.consensus_proof.intermediates, {})
         IN Result("Ok", r.host, r.state_updates, {})

update_client_writes_first(h, msg) ==
    LET sid == msg.consensus_state_id
        cid == consensus_client_from_state_id(h, sid)
        update_time == h.consensus_update_time[sid]
        delay == challenge_period(cid)
        written == [h EXCEPT !.consensus_update_time[sid] = h.now]
    IN IF cid = NoClient THEN Err(h, "ConsensusStateIdNotRecognized")
       ELSE IF ~consensus_client(cid) THEN Err(h, "UnknownConsensusClient")
       ELSE IF h.consensus_states[sid] = NoState THEN Err(h, "ConsensusStateNotFound")
       ELSE IF update_time = NoTime THEN Err(h, "ImplementationSpecific")
       ELSE IF is_consensus_client_frozen(h, sid) THEN Err(h, "FrozenConsensusClient")
       ELSE IF ChallengePeriodNotElapsed(h.now, update_time, delay)
         THEN Err(h, "ChallengePeriodNotElapsed")
       ELSE IF is_expired(h, cid, sid) THEN Err(h, "UnbondingPeriodElapsed")
       ELSE IF ~msg.consensus_proof.valid
         THEN Err(written, "ConsensusProofVerificationFailed")
       ELSE
         LET h1 == [h EXCEPT !.consensus_states[sid] = msg.consensus_proof.new_state,
                             !.consensus_update_time[sid] = h.now]
             r == ApplyIntermediates(h1, sid, msg.consensus_proof.intermediates, {})
         IN Result("Ok", r.host, r.state_updates, {})

update_client_state_first(h, msg) ==
    LET sid == msg.consensus_state_id
        cid == consensus_client_from_state_id(h, sid)
        update_time == h.consensus_update_time[sid]
        delay == challenge_period(cid)
    IN IF h.consensus_states[sid] = NoState THEN Err(h, "ConsensusStateNotFound")
       ELSE IF cid = NoClient THEN Err(h, "ConsensusStateIdNotRecognized")
       ELSE IF ~consensus_client(cid) THEN Err(h, "UnknownConsensusClient")
       ELSE IF update_time = NoTime THEN Err(h, "ImplementationSpecific")
       ELSE IF is_consensus_client_frozen(h, sid) THEN Err(h, "FrozenConsensusClient")
       ELSE IF ChallengePeriodNotElapsed(h.now, update_time, delay)
         THEN Err(h, "ChallengePeriodNotElapsed")
       ELSE IF is_expired(h, cid, sid) THEN Err(h, "UnbondingPeriodElapsed")
       ELSE IF ~msg.consensus_proof.valid THEN Err(h, "ConsensusProofVerificationFailed")
       ELSE
         LET h1 == [h EXCEPT !.consensus_states[sid] = msg.consensus_proof.new_state,
                             !.consensus_update_time[sid] = h.now]
             r == ApplyIntermediates(h1, sid, msg.consensus_proof.intermediates, {})
         IN Result("Ok", r.host, r.state_updates, {})

update_client(h, msg) ==
    LET sid == msg.consensus_state_id
        cid == consensus_client_from_state_id(h, sid)
        update_time == h.consensus_update_time[sid]
        delay == challenge_period(cid)
    IN IF cid = NoClient THEN Err(h, "ConsensusStateIdNotRecognized")
       ELSE IF ~consensus_client(cid) THEN Err(h, "UnknownConsensusClient")
       ELSE IF h.consensus_states[sid] = NoState THEN Err(h, "ConsensusStateNotFound")
       ELSE IF update_time = NoTime THEN Err(h, "ImplementationSpecific")
       ELSE IF is_consensus_client_frozen(h, sid) THEN Err(h, "FrozenConsensusClient")
       ELSE IF ChallengePeriodNotElapsed(h.now, update_time, delay)
         THEN Err(h, "ChallengePeriodNotElapsed")
       ELSE IF is_expired(h, cid, sid) THEN Err(h, "UnbondingPeriodElapsed")
       ELSE IF ~msg.consensus_proof.valid THEN Err(h, "ConsensusProofVerificationFailed")
       ELSE
         LET h1 == [h EXCEPT !.consensus_states[sid] = msg.consensus_proof.new_state,
                             !.consensus_update_time[sid] = h.now]
             r == ApplyIntermediates(h1, sid, msg.consensus_proof.intermediates, {})
         IN Result("Ok", r.host, r.state_updates, {})

RECURSIVE StoreCommitments(_, _)
StoreCommitments(h, commitments) ==
    IF commitments = <<>> THEN h
    ELSE LET c == Head(commitments)
             height == [id |-> c.id, height |-> c.height]
         IN StoreCommitments(
                store_latest_commitment_height(
                    store_state_machine_commitment(h, height, c.commitment), height),
                Tail(commitments))

create_client_future_time(h, message) ==
    IF ~consensus_client(message.consensus_client_id) THEN Err(h, "UnknownConsensusClient")
    ELSE
      LET sid == message.consensus_state_id
          h1 == [h EXCEPT !.consensus_states[sid] = message.consensus_state,
                          !.consensus_state_client[sid] = message.consensus_client_id]
          h2 == StoreCommitments(h1, message.state_machine_commitments)
      IN Result("Ok", [h2 EXCEPT !.consensus_update_time[sid] = h.now + 1], {}, {})

create_client_no_time(h, message) ==
    IF ~consensus_client(message.consensus_client_id) THEN Err(h, "UnknownConsensusClient")
    ELSE
      LET sid == message.consensus_state_id
          h1 == [h EXCEPT !.consensus_states[sid] = message.consensus_state,
                          !.consensus_state_client[sid] = message.consensus_client_id]
      IN Result("Ok", StoreCommitments(h1, message.state_machine_commitments), {}, {})

create_client(h, message) ==
    IF ~consensus_client(message.consensus_client_id) THEN Err(h, "UnknownConsensusClient")
    ELSE
      LET sid == message.consensus_state_id
          h1 == [h EXCEPT !.consensus_states[sid] = message.consensus_state,
                          !.consensus_state_client[sid] = message.consensus_client_id]
          h2 == StoreCommitments(h1, message.state_machine_commitments)
      IN Result("Ok", [h2 EXCEPT !.consensus_update_time[sid] = h.now], {}, {})

freeze_client_gated(h, msg) ==
    LET sid == msg.consensus_state_id
        cid == consensus_client_from_state_id(h, sid)
    IN IF cid = NoClient THEN Err(h, "ImplementationSpecific")
       ELSE IF ~consensus_client(cid) THEN Err(h, "UnknownConsensusClient")
       ELSE IF h.consensus_states[sid] = NoState THEN Err(h, "ConsensusStateNotFound")
       ELSE IF is_consensus_client_frozen(h, sid) THEN Err(h, "FrozenConsensusClient")
       ELSE IF ~msg.valid THEN Err(h, "ImplementationSpecific")
       ELSE Result("FrozenClient",
                   [freeze_consensus_client(h, sid) EXCEPT !.consensus_update_time[sid] = h.now],
                   {}, {})

freeze_client_freezes_first(h, msg) ==
    LET sid == msg.consensus_state_id
        cid == consensus_client_from_state_id(h, sid)
    IN IF cid = NoClient THEN Err(h, "ImplementationSpecific")
       ELSE IF ~consensus_client(cid) THEN Err(h, "UnknownConsensusClient")
       ELSE IF h.consensus_states[sid] = NoState THEN Err(h, "ConsensusStateNotFound")
       ELSE IF ~msg.valid THEN Err(freeze_consensus_client(h, sid), "ImplementationSpecific")
       ELSE Result("FrozenClient",
                   [freeze_consensus_client(h, sid) EXCEPT !.consensus_update_time[sid] = h.now],
                   {}, {})

freeze_client_keeps_time(h, msg) ==
    LET sid == msg.consensus_state_id
        cid == consensus_client_from_state_id(h, sid)
    IN IF cid = NoClient THEN Err(h, "ImplementationSpecific")
       ELSE IF ~consensus_client(cid) THEN Err(h, "UnknownConsensusClient")
       ELSE IF h.consensus_states[sid] = NoState THEN Err(h, "ConsensusStateNotFound")
       ELSE IF ~msg.valid THEN Err(h, "ImplementationSpecific")
       ELSE Result("FrozenClient", freeze_consensus_client(h, sid), {}, {})

freeze_client(h, msg) ==
    LET sid == msg.consensus_state_id
        cid == consensus_client_from_state_id(h, sid)
    IN IF cid = NoClient THEN Err(h, "ImplementationSpecific")
       ELSE IF ~consensus_client(cid) THEN Err(h, "UnknownConsensusClient")
       ELSE IF h.consensus_states[sid] = NoState THEN Err(h, "ConsensusStateNotFound")
       ELSE IF ~msg.valid THEN Err(h, "ImplementationSpecific")
       ELSE Result("FrozenClient",
                   [freeze_consensus_client(h, sid) EXCEPT !.consensus_update_time[sid] = h.now],
                   {}, {})

\* ------------------------------------------- request/response/timeout
verify_delay_passed_ge(h, proof_height) ==
    LET sid == proof_height.id.consensus_state_id
        update_time == h.consensus_update_time[sid]
        delay_period == challenge_period(consensus_client_from_state_id(h, sid))
    IN h.now - update_time >= delay_period

verify_delay_passed(h, proof_height) ==
    LET sid == proof_height.id.consensus_state_id
        update_time == h.consensus_update_time[sid]
        delay_period == challenge_period(consensus_client_from_state_id(h, sid))
    IN h.now - update_time > delay_period

validate_state_machine_delay_first(h, proof) ==
    LET sid == proof.height.id.consensus_state_id
        cid == consensus_client_from_state_id(h, sid)
    IN IF cid = NoClient \/ ~consensus_client(cid) THEN "UnknownConsensusClient"
       ELSE IF h.consensus_update_time[sid] = NoTime THEN "ImplementationSpecific"
       ELSE IF ~verify_delay_passed(h, proof.height) THEN "ChallengePeriodNotElapsed"
       ELSE IF is_consensus_client_frozen(h, sid) THEN "FrozenConsensusClient"
       ELSE IF is_frozen(h, proof.height) THEN "FrozenStateMachine"
       ELSE "Ok"

\* The preamble of the three handlers: "Ok" or the error it fails with.
validate_state_machine(h, proof) ==
    LET sid == proof.height.id.consensus_state_id
        cid == consensus_client_from_state_id(h, sid)
    IN IF cid = NoClient \/ ~consensus_client(cid) THEN "UnknownConsensusClient"
       ELSE IF is_consensus_client_frozen(h, sid) THEN "FrozenConsensusClient"
       ELSE IF is_frozen(h, proof.height) THEN "FrozenStateMachine"
       ELSE IF h.consensus_update_time[sid] = NoTime THEN "ImplementationSpecific"
       ELSE IF ~verify_delay_passed(h, proof.height) THEN "ChallengePeriodNotElapsed"
       ELSE "Ok"

handle_request_message(h, msg) ==
    LET v == validate_state_machine(h, msg.proof)
        state == state_machine_commitment(h, msg.proof.height)
    IN IF v # "Ok" THEN Err(h, v)
       ELSE IF state = NoCommitment THEN Err(h, "StateCommitmentNotFound")
       ELSE IF ~msg.proof.valid THEN Err(h, "MembershipProofVerificationFailed")
       ELSE Result("Ok", h, {}, {msg.request})

handle_response_message(h, msg) ==
    LET v == validate_state_machine(h, msg.proof)
        state == state_machine_commitment(h, msg.proof.height)
    IN IF v # "Ok" THEN Err(h, v)
       ELSE IF ~request_commitment(h, msg.response.request)
         THEN Err(h, "RequestCommitmentNotFound")
       ELSE IF state = NoCommitment THEN Err(h, "StateCommitmentNotFound")
       ELSE IF ~msg.proof.valid THEN Err(h, "MembershipProofVerificationFailed")
       ELSE Result("Ok", delete_request_commitment(h, msg.response.request), {},
                   {msg.response.request})

handle_timeout_message_state_first(h, msg) ==
    LET v == validate_state_machine(h, msg.timeout_proof)
        state == state_machine_commitment(h, msg.timeout_proof.height)
    IN IF v # "Ok" THEN Err(h, v)
       ELSE IF state = NoCommitment THEN Err(h, "StateCommitmentNotFound")
       ELSE IF h.now <= state.timestamp THEN Err(h, "RequestTimeoutVerificationFailed")
       ELSE IF ~msg.timeout_proof.valid THEN Err(h, "NonMembershipProofVerificationFailed")
       ELSE IF ~request_commitment(h, msg.request) THEN Err(h, "RequestCommitmentNotFound")
       ELSE Result("Ok", h, {}, {msg.request})

handle_timeout_message(h, msg) ==
    LET v == validate_state_machine(h, msg.timeout_proof)
        state == state_machine_commitment(h, msg.timeout_proof.height)
    IN IF v # "Ok" THEN Err(h, v)
       ELSE IF ~request_commitment(h, msg.request) THEN Err(h, "RequestCommitmentNotFound")
       ELSE IF state = NoCommitment THEN Err(h, "StateCommitmentNotFound")
       ELSE IF h.now <= state.timestamp THEN Err(h, "RequestTimeoutVerificationFailed")
       ELSE IF ~msg.timeout_proof.valid THEN Err(h, "NonMembershipProofVerificationFailed")
       ELSE Result("Ok", h, {}, {msg.request})

\* ------------------------------------------------- requests and their hashes
\* Byte strings are sequences of numbers below 256.
ByteStrings == {<<>>, <<1>>, <<2>>}

Posts ==
    [source_chain : {HostStateMachine}, dest_chain : {"Kusama", "Ethereum"},
     nonce : 0..1, from : ByteStrings, to : ByteStrings,
     timeout_timestamp : 0..1, data : ByteStrings]

Gets ==
    [source_chain : {HostStateMachine}, dest_chain : {"Kusama"},
     nonce : 0..1, from : {<<>>, <<1>>}, keys : {<<>>, <<(<<1>>)>>},
     height : {0}, timeout_timestamp : 0..1]

RouterRequests == [kind : {"Post"}, body : Posts] \cup [kind : {"Get"}, body : Gets]

timeout(request) == request.body.timeout_timestamp

timed_out(request, proof_timestamp) == proof_timestamp >= timeout(request)

\* The text of a state machine, as the bytes of a short ASCII tag.
to_string(state_machine) ==
    CASE state_machine = "Polkadot" -> <<68, 79, 84>>
      [] state_machine = "Kusama" -> <<75, 83, 77>>
      [] state_machine = "Ethereum" -> <<69, 84, 72>>

\* The lowest len bytes of n, the most significant first.
RECURSIVE be_bytes(_, _)
be_bytes(n, len) == IF len = 0 THEN <<>> ELSE be_bytes(n \div 256, len - 1) \o <<n % 256>>

\* u64::to_be_bytes: eight bytes.
to_be_bytes(n) == be_bytes(n, 8)

\* The SCALE encoding of a short byte string and of a short list of them: a
\* one-byte compact length (4 * n for n < 64), then the items.
encode_bytes(bytes) == <<4 * Len(bytes)>> \o bytes

RECURSIVE encode_keys_from(_, _)
encode_keys_from(keys, i) ==
    IF i > Len(keys) THEN <<>> ELSE encode_bytes(keys[i]) \o encode_keys_from(keys, i + 1)

encode(keys) == <<4 * Len(keys)>> \o encode_keys_from(keys, 1)

\* The buffer hash_request hands to keccak256.
hash_request_buf(req) ==
    IF req.kind = "Post"
    THEN LET post == req.body
         IN to_string(post.source_chain) \o to_string(post.dest_chain)
            \o to_be_bytes(post.nonce) \o to_be_bytes(post.timeout_timestamp)
            \o post.from \o post.to \o post.data
    ELSE LET get == req.body
         IN to_string(get.source_chain) \o to_string(get.dest_chain)
            \o to_be_bytes(get.nonce) \o to_be_bytes(get.height)
            \o to_be_bytes(get.timeout_timestamp)
            \o get.from \o encode(get.keys)

\* The entry point: it has an arm for three of the message variants.
handle_incoming_message(h, message) ==
    CASE message.kind = "Consensus" -> update_client(h, message.body)
      [] message.kind = "Request" -> handle_request_message(h, message.body)
      [] message.kind = "Response" -> handle_response_message(h, message.body)
      [] OTHER -> Err(h, "CannotHandleMessage")

\* --------------------------------------------------------------- messages
\* A consensus proof stands for what verify_consensus makes of it: whether it
\* verifies, the new trusted state and the intermediate states it yields.
\* The messages that create the consensus state of a test host's clients.
CreateDummyClients ==
    [consensus_client_id : DummyClients \cup {"mock"},
     consensus_state_id : ConsensusStateIds,
     consensus_state : {"t0"},
     state_machine_commitments : { <<>> }]

ConsensusProofs ==
    [valid : {TRUE}, new_state : {"t1"},
     intermediates : SeqsUpTo(IntermediateStates, MaxIntermediates)]
    \cup [valid : {FALSE}, new_state : {"t1"}, intermediates : { <<>> }]

ConsensusMessages == [consensus_state_id : ConsensusStateIds, consensus_proof : ConsensusProofs]

FraudProofMessages == [consensus_state_id : ConsensusStateIds, valid : BOOLEAN]

CreateConsensusClients ==
    [consensus_client_id : ConsensusClientIds,
     consensus_state_id : ConsensusStateIds,
     consensus_state : {"t0"},
     state_machine_commitments : SeqsUpTo(GenesisCommitments, 1)]

\* A proof stands for the verdict of the consensus client that verifies it.
Proofs == [height : StateMachineHeights, valid : BOOLEAN]

Responses == [request : Requests]

\* Whether a request leaves the host or arrives at it.
Direction(request) == IF request.dest_chain # HostStateMachine THEN "Outbound" ELSE "Inbound"

RequestMessages == [request : Requests, proof : Proofs]

ResponseMessages == [response : Responses, proof : Proofs]

\* The proof of a timeout stands for what verify_state_proof makes of it: an
\* error (valid = FALSE), or the value it found under the key of the request
\* (present) or the absence of one.
TimeoutProofs ==
    { p \in [height : StateMachineHeights, valid : BOOLEAN, present : BOOLEAN] :
        p.present => p.valid }

TimeoutMessages == [request : Requests, timeout_proof : TimeoutProofs]

\* The consensus messages sent through the entry point carry no intermediate
\* state.
Messages ==
    [kind : {"Consensus"},
     body : { m \in ConsensusMessages : m.consensus_proof.intermediates = <<>> }]
    \cup [kind : {"FraudProof"}, body : FraudProofMessages]
    \cup [kind : {"Request"}, body : RequestMessages]
    \cup [kind : {"Response"}, body : ResponseMessages]
    \cup [kind : {"Timeout"}, body : TimeoutMessages]

\* ---------------------------------------------------------- state machine
\* last records the call that produced the current state: the operation, the
\* message variant, the result, the proof height of a request, response or
\* timeout message and the number of intermediate states an update skipped.
Last(op, kind, res, height, stored, skipped) ==
    [op |-> op, kind |-> kind, res |-> res, height |-> height,
     stored |-> stored, skipped |-> skipped]

Skipped(m, r) ==
    IF r.res = "Ok"
    THEN Len(m.consensus_proof.intermediates) - Cardinality(r.state_updates)
    ELSE 0

ProofHeight(m) ==
    CASE m.kind \in {"Request", "Response"} -> m.body.proof.height.height
      [] m.kind = "Timeout" -> m.body.timeout_proof.height.height
      [] OTHER -> 0

Init ==
    /\ host = DefaultHost
    /\ last = Last("init", "None", "Ok", 0, 0, 0)

Tick ==
    /\ host.now < MaxTime
    /\ host' = [host EXCEPT !.now = @ + 1]
    /\ last' = Last("tick", "None", "Ok", 0, 0, 0)

CreateClient ==
    \E m \in CreateConsensusClients :
        LET r == create_client(host, m)
        IN /\ host' = r.host
           /\ last' = Last("create_client", "CreateConsensusClient", r.res, 0, 0, 0)

UpdateClient ==
    \E m \in ConsensusMessages :
        LET r == update_client(host, m)
        IN /\ host' = r.host
           /\ last' = Last("update_client", "Consensus", r.res, 0,
                        Cardinality(r.state_updates), Skipped(m, r))

FreezeClient ==
    \E m \in FraudProofMessages :
        LET r == freeze_client(host, m)
        IN /\ host' = r.host
           /\ last' = Last("freeze_client", "FraudProof", r.res, 0, 0, 0)

FreezeStateMachine ==
    \E height \in FreezableHeights :
        /\ host' = freeze_state_machine(host, height)
        /\ last' = Last("freeze_state_machine", "None", "Ok", height.height, 0, 0)

HandleIncomingMessage ==
    \E m \in Messages :
        LET r == handle_incoming_message(host, m)
        IN /\ host' = r.host
           /\ last' = Last("handle_incoming_message", m.kind, r.res, ProofHeight(m), 0, 0)

HandleTimeout ==
    \E m \in TimeoutMessages :
        LET r == handle_timeout_message(host, m)
        IN /\ host' = r.host
           /\ last' = Last("handle_timeout_message", "Timeout", r.res, m.timeout_proof.height.height, 0, 0)

\* A test stores the commitment of a request on the host directly.
StoreRequestCommitment ==
    \E request \in Requests :
        /\ host' = [host EXCEPT !.requests = @ \cup {request}]
        /\ last' = Last("store_request_commitment", "None", "Ok", 0, 0, 0)

RouterDispatch ==
    \E request \in Requests :
        LET r == dispatch(host, request)
        IN /\ host' = r.host
           /\ last' = Last("dispatch", Direction(request), r.res, 0, 0, 0)

RouterWriteResponse ==
    \E response \in Responses :
        LET r == write_response(host, response)
        IN /\ host' = r.host
           /\ last' = Last("write_response", Direction(response.request), r.res, 0, 0, 0)

CreateDummyClient ==
    \E m \in CreateDummyClients :
        LET r == create_client(host, m)
        IN /\ host' = r.host
           /\ last' = Last("create_client", "CreateConsensusClient", r.res, 0, 0, 0)

\* freeze_client, the history keeping what the call found: the time elapsed
\* since the last update and whether the consensus state was frozen already.
FreezeClientTraced ==
    \E m \in FraudProofMessages :
        LET r == freeze_client(host, m)
            sid == m.consensus_state_id
            update_time == host.consensus_update_time[sid]
        IN /\ host' = r.host
           /\ last' = Last("freeze_client", "FraudProof", r.res,
                           IF update_time = NoTime THEN 0 ELSE host.now - update_time,
                           IF is_consensus_client_frozen(host, sid) THEN 1 ELSE 0, 0)

\* A caller asks whether a request has timed out at a proof timestamp.
TimedOut ==
    \E request \in RouterRequests, proof_timestamp \in 0..MaxTime :
        /\ host' = host
        /\ last' = Last("timed_out", request.kind,
                        IF timed_out(request, proof_timestamp) THEN "true" ELSE "false",
                        proof_timestamp, timeout(request), 0)

\* A caller hashes a request; the history keeps the hashed buffer.
HashRequest ==
    \E req \in RouterRequests :
        /\ host' = host
        /\ last' = Last("hash_request", req.kind, hash_request_buf(req), 0, 0, 0)

Next ==
    \/ Tick
    \/ CreateClient
    \/ UpdateClient
    \/ FreezeClient
    \/ FreezeStateMachine

Spec == Init /\ [][Next]_vars

\* The consensus client on its own: no state machine is frozen by the operator.
NextUpdate ==
    \/ Tick
    \/ CreateClient
    \/ UpdateClient
    \/ FreezeClient

SpecUpdate == Init /\ [][NextUpdate]_vars

NextMsg ==
    \/ Tick
    \/ CreateClient
    \/ FreezeClient
    \/ FreezeStateMachine
    \/ HandleIncomingMessage
    \/ HandleTimeout

SpecMsg == Init /\ [][NextMsg]_vars

\* Outgoing requests and the replies to them: the router, the commitments of
\* outgoing requests and the handlers, with nothing frozen.
NextReply ==
    \/ Tick
    \/ CreateClient
    \/ StoreRequestCommitment
    \/ RouterDispatch
    \/ RouterWriteResponse
    \/ HandleIncomingMessage
    \/ HandleTimeout

SpecReply == Init /\ [][NextReply]_vars

\* The requests of the router on their own: deadlines and hashes.
NextRequest ==
    \/ Tick
    \/ TimedOut
    \/ HashRequest

SpecRequest == Init /\ [][NextRequest]_vars

\* The consensus handlers on a host whose clients include one with a
\* challenge period beyond the unbonding period.
NextOrder ==
    \/ Tick
    \/ CreateDummyClient
    \/ UpdateClient
    \/ FreezeClientTraced

SpecOrder == Init /\ [][NextOrder]_vars

\* ----------------------------------------------------------------- claims
Recognised(sid) == host.consensus_state_client[sid] \in KnownClients

Frozen(sid) == sid \in host.frozen_consensus_clients

Elapsed(sid) == host.now - host.consensus_update_time[sid]

Delay(sid) == challenge_period(host.consensus_state_client[sid])

ProofStateId(proof) == proof.height.id.consensus_state_id

FrozenAt(proof) == host.frozen_state_machines[proof.height.id]

\* C1: update_client rejects a message for a recognised, non-frozen consensus
\* state with ChallengePeriodNotElapsed, writing nothing, whenever
\* now - update_time <= challenge_period (equality included); whatever gets
\* past the gate has a strictly greater elapsed time.
C1_ChallengeGateRejectsUpTo ==
    \A m \in ConsensusMessages :
        LET sid == m.consensus_state_id
            r == update_client(host, m)
        IN (Recognised(sid) /\ ~Frozen(sid)) =>
              /\ (Elapsed(sid) <= Delay(sid)) =>
                    (r.res = "ChallengePeriodNotElapsed" /\ r.host = host)
              /\ (r.res \in {"Ok", "UnbondingPeriodElapsed", "ConsensusProofVerificationFailed"})
                    => (Elapsed(sid) > Delay(sid))

C1_RejectedAtEquality ==
    /\ last.op = "update_client"
    /\ last.res = "ChallengePeriodNotElapsed"
    /\ Recognised("s1") /\ ~Frozen("s1")
    /\ Delay("s1") = 1
    /\ Elapsed("s1") = Delay("s1")

\* C2: every Request, Response and Timeout message whose consensus state and
\* state machine height are not frozen and for which now - update_time <=
\* challenge_period makes handle_incoming_message fail with
\* ChallengePeriodNotElapsed, and nothing is dispatched to the router.
C2_EntryPointChallengeGate ==
    \A m \in Messages :
        LET sid == ProofStateId(IF m.kind = "Timeout" THEN m.body.timeout_proof ELSE m.body.proof)
            proof == IF m.kind = "Timeout" THEN m.body.timeout_proof ELSE m.body.proof
            r == handle_incoming_message(host, m)
        IN (/\ m.kind \in {"Request", "Response", "Timeout"}
            /\ Recognised(sid) /\ ~Frozen(sid)
            /\ (FrozenAt(proof) = NoHeight)
            /\ Elapsed(sid) <= Delay(sid))
           => (r.res = "ChallengePeriodNotElapsed" /\ r.dispatched = {})

\* C3: the request handler hands a request to the router exactly when it
\* succeeds, and then the consensus client was not frozen, the state machine
\* was not frozen at the proof height, now - update_time > challenge_period, a
\* state commitment existed at the proof height and the membership proof
\* verified.
C3_DispatchOnlyWhenValidated ==
    \A m \in RequestMessages :
        LET sid == ProofStateId(m.proof)
            r == handle_request_message(host, m)
        IN /\ (r.dispatched # {}) <=> (r.res = "Ok")
           /\ (r.dispatched # {}) =>
                 /\ r.dispatched = {m.request}
                 /\ Recognised(sid) /\ ~Frozen(sid)
                 /\ ~is_frozen(host, m.proof.height)
                 /\ Elapsed(sid) > Delay(sid)
                 /\ host.state_commitments[m.proof.height] # NoCommitment
                 /\ m.proof.valid

C3_RequestDispatched ==
    /\ last.op = "handle_incoming_message"
    /\ last.kind = "Request"
    /\ last.res = "Ok"
    /\ Elapsed("s1") > Delay("s1")

\* C4: a frozen consensus state stays frozen whatever is handled next, and
\* while it is frozen every Consensus, Request, Response and Timeout message
\* for that state id fails with a frozen-kind error.
FrozenKind == {"FrozenConsensusClient", "FrozenStateMachine"}

FrozenRejectsEverything ==
    \A sid \in host.frozen_consensus_clients :
        /\ \A m \in ConsensusMessages :
              m.consensus_state_id = sid => update_client(host, m).res \in FrozenKind
        /\ \A m \in RequestMessages :
              ProofStateId(m.proof) = sid => handle_request_message(host, m).res \in FrozenKind
        /\ \A m \in ResponseMessages :
              ProofStateId(m.proof) = sid => handle_response_message(host, m).res \in FrozenKind
        /\ \A m \in TimeoutMessages :
              ProofStateId(m.timeout_proof) = sid
                 => handle_timeout_message(host, m).res \in FrozenKind

C5_FrozenFromHeightUpwards ==
    \A m \in RequestMessages :
        LET sid == ProofStateId(m.proof)
            r == handle_request_message(host, m)
        IN (/\ FrozenAt(m.proof) # NoHeight
            /\ Recognised(sid) /\ ~Frozen(sid)
            /\ Elapsed(sid) > Delay(sid)
            /\ host.state_commitments[m.proof.height] # NoCommitment
            /\ m.proof.valid)
           => IF m.proof.height.height >= FrozenAt(m.proof)
              THEN r.res = "FrozenStateMachine"
              ELSE r.res = "Ok"

C7_ExpiryIsStrict ==
    \A m \in ConsensusMessages :
        LET sid == m.consensus_state_id
            r == update_client(host, m)
        IN (Recognised(sid) /\ ~Frozen(sid) /\ Elapsed(sid) > Delay(sid)) =>
              /\ (Elapsed(sid) > UnbondingPeriod) =>
                    (r.res = "UnbondingPeriodElapsed" /\ r.host = host)
              /\ (Elapsed(sid) = UnbondingPeriod) => (r.res # "UnbondingPeriodElapsed")

C7_ExpiredUpdateRejected ==
    /\ last.op = "update_client"
    /\ last.res = "UnbondingPeriodElapsed"
    /\ Elapsed("s1") = UnbondingPeriod + 1

MaxOf(S) == CHOOSE x \in S : \A y \in S : y <= x

C9_UpdateKeepsLatestMonotone ==
    \A m \in ConsensusMessages :
        LET r == update_client(host, m)
            stored == { u[2] : u \in r.state_updates }
        IN (r.res = "Ok") =>
              /\ \A id \in StateMachineIds :
                    /\ latest_commitment_height(r.host, id)
                          >= latest_commitment_height(host, id)
                    /\ latest_commitment_height(r.host, id) =
                          MaxOf({latest_commitment_height(host, id)}
                                \cup { sh.height : sh \in { t \in stored : t.id = id } })
              /\ \A sh \in StateMachineHeights :
                    (r.host.state_commitments[sh] # host.state_commitments[sh])
                       => (sh \in stored /\ sh.height >= latest_commitment_height(host, sh.id))
              /\ \A u \in r.state_updates : u[1].height <= u[2].height

C9_LowerHeightSkipped ==
    /\ last.op = "update_client"
    /\ last.res = "Ok"
    /\ last.skipped = 1
    /\ \E id \in StateMachineIds :
          /\ host.latest_state_height[id] = 2
          /\ host.state_commitments[[id |-> id, height |-> 2]] # NoCommitment
          /\ host.state_commitments[[id |-> id, height |-> 1]] = NoCommitment
          /\ host.frozen_state_machines[id] = NoHeight

\* C10: no operation of the core ever lowers the latest commitment height
\* recorded for a state machine id, create_client included.
C10_LatestHeightNeverDecreases ==
    [][\A id \in StateMachineIds :
          latest_commitment_height(host', id) >= latest_commitment_height(host, id)]_vars

\* C11: a state commitment stored at a state machine height is never replaced
\* by a different one, whichever operation of the core presents a commitment
\* for that height afterwards.
C11_CommitmentsInsertOnly ==
    [][\A sh \in StateMachineHeights :
          (host.state_commitments[sh] # NoCommitment)
             => (host'.state_commitments[sh] = host.state_commitments[sh])]_vars

\* The height an entry of an intermediates list refers to, under a state id.
HeightOf(sid, s) ==
    [id |-> [state_id |-> s.state_id, consensus_state_id |-> sid], height |-> s.height]

\* The first entry of a list that refers to a height.
FirstFor(sid, states, sh) ==
    states[CHOOSE i \in 1..Len(states) :
              /\ HeightOf(sid, states[i]) = sh
              /\ \A j \in 1..(i - 1) : HeightOf(sid, states[j]) # sh]

\* C12: when a verified list names the same state machine height twice with
\* different commitments, a successful update_client keeps the commitment of
\* the first entry, skips the later one and reports exactly one transition
\* for that height; a height that already held a commitment keeps it and gets
\* no transition.
C12_FirstEntryWins ==
    \A m \in ConsensusMessages :
        LET r == update_client(host, m)
            sid == m.consensus_state_id
            states == m.consensus_proof.intermediates
        IN (r.res = "Ok") =>
              \A sh \in StateMachineHeights :
                 LET transitions == { u \in r.state_updates : u[2] = sh } IN
                 /\ Cardinality(transitions) <= 1
                 /\ (host.state_commitments[sh] # NoCommitment) =>
                       (r.host.state_commitments[sh] = host.state_commitments[sh]
                        /\ transitions = {})
                 /\ (host.state_commitments[sh] = NoCommitment
                     /\ r.host.state_commitments[sh] # NoCommitment) =>
                       (/\ Cardinality(transitions) = 1
                        /\ r.host.state_commitments[sh]
                              = FirstFor(sid, states, sh).commitment)

C12_SecondEntrySkipped ==
    /\ last.op = "update_client"
    /\ last.res = "Ok"
    /\ last.stored = 1
    /\ last.skipped = 1
    /\ \A sh \in StateMachineHeights :
          (host.state_commitments[sh] # NoCommitment)
             <=> (sh.id.state_id = "Ethereum" /\ sh.height = 1)
    /\ \A id \in StateMachineIds : host.frozen_state_machines[id] = NoHeight

\* C13: in a successful consensus update an intermediate state at a frozen
\* state machine height is skipped without failing the update (nothing is
\* stored at that height, and the latest height of an id whose entries are all
\* frozen is unchanged), while the entries of state machines that are not
\* frozen are still stored.
C13_FrozenHeightSkipped ==
    \A m \in ConsensusMessages :
        LET r == update_client(host, m)
            sid == m.consensus_state_id
            states == m.consensus_proof.intermediates
            cid == host.consensus_state_client[sid]
        IN /\ (Recognised(sid) /\ ~Frozen(sid) /\ m.consensus_proof.valid
               /\ Delay(sid) < Elapsed(sid) /\ Elapsed(sid) <= UnbondingPeriod)
                 => (r.res = "Ok")
           /\ (r.res = "Ok") =>
                 /\ \A i \in 1..Len(states) :
                       LET sh == HeightOf(sid, states[i]) IN
                       /\ is_frozen(host, sh) =>
                             /\ r.host.state_commitments[sh] = host.state_commitments[sh]
                             /\ \A u \in r.state_updates : u[2] # sh
                       /\ (/\ host.frozen_state_machines[sh.id] = NoHeight
                           /\ latest_commitment_height(host, sh.id) <= sh.height
                           /\ \A j \in 1..(i - 1) :
                                 HeightOf(sid, states[j]).id = sh.id
                                    => states[j].height <= sh.height)
                             => (r.host.state_commitments[sh] # NoCommitment)
                 /\ \A id \in StateMachineIds :
                       (\A i \in 1..Len(states) :
                           HeightOf(sid, states[i]).id = id
                              => is_frozen(host, HeightOf(sid, states[i])))
                          => (r.host.latest_state_height[id] = host.latest_state_height[id])

C13_FrozenSkippedOtherStored ==
    /\ last.op = "update_client"
    /\ last.res = "Ok"
    /\ last.stored = 1
    /\ last.skipped >= 1
    /\ \A sh \in StateMachineHeights :
          (host.state_commitments[sh] # NoCommitment)
             <=> (sh.id.state_id = "Kusama" /\ sh.height = 1)
    /\ \E id \in StateMachineIds :
          id.state_id = "Ethereum" /\ host.frozen_state_machines[id] # NoHeight
                                   /\ host.latest_state_height[id] = NoHeight

C15_FraudProofFreezes ==
    \A m \in FraudProofMessages :
        LET r == freeze_client(host, m)
            sid == m.consensus_state_id
        IN (m.valid /\ Recognised(sid)) =>
              /\ r.res = "FrozenClient"
              /\ sid \in r.host.frozen_consensus_clients
              /\ r.host.consensus_update_time[sid] = host.now
              /\ r.host = [host EXCEPT !.frozen_consensus_clients = @ \cup {sid},
                                       !.consensus_update_time[sid] = host.now]

C15_ClientFrozenByFraudProof ==
    /\ last.op = "freeze_client"
    /\ last.res = "FrozenClient"
    /\ Frozen("s1")
    /\ host.now > 0
    /\ host.consensus_update_time["s1"] = host.now
    /\ host.consensus_states["s1"] = "t1"

\* C16: after router.dispatch accepts an outbound request the host holds the
\* commitment of that request, and dispatching a request whose commitment the
\* host holds fails with a dispatch error and leaves the commitments as they
\* are.
C16_OutboundRequestCommitted ==
    /\ (last.op = "dispatch" /\ last.kind = "Outbound" /\ last.res = "Ok")
          => \E request \in Requests :
                Direction(request) = "Outbound" /\ request_commitment(host, request)
    /\ \A request \in Requests :
          (Direction(request) = "Outbound" /\ request_commitment(host, request))
             => LET r == dispatch(host, request)
                IN r.res = "DispatchError" /\ r.host.requests = host.requests

\* C17: after router.write_response accepts an outbound response the response
\* is committed on the host, and writing a response the host has committed
\* fails with a dispatch error.
C17_OutboundResponseCommitted ==
    /\ (last.op = "write_response" /\ last.kind = "Inbound" /\ last.res = "Ok")
          => \E response \in Responses :
                Direction(response.request) = "Inbound" /\ response \in host.responses
    /\ \A response \in Responses :
          (response \in host.responses)
             => write_response(host, response).res = "DispatchError"

\* C18: the preamble rejects a Request, Response or Timeout message whose
\* consensus state is past its unbonding period with UnbondingPeriodElapsed,
\* nothing being dispatched, although the client is not frozen and the
\* challenge period has elapsed.
C18_PreambleRejectsExpired ==
    \A p \in Proofs :
        LET sid == ProofStateId(p) IN
        (/\ Recognised(sid) /\ ~Frozen(sid)
         /\ FrozenAt(p) = NoHeight
         /\ Elapsed(sid) > Delay(sid)
         /\ Elapsed(sid) > UnbondingPeriod)
        => /\ \A m \in RequestMessages : m.proof = p =>
                 LET r == handle_request_message(host, m)
                 IN r.res = "UnbondingPeriodElapsed" /\ r.dispatched = {}
           /\ \A m \in ResponseMessages : m.proof = p =>
                 LET r == handle_response_message(host, m)
                 IN r.res = "UnbondingPeriodElapsed" /\ r.dispatched = {}
           /\ \A m \in TimeoutMessages : m.timeout_proof.height = p.height =>
                 LET r == handle_timeout_message(host, m)
                 IN r.res = "UnbondingPeriodElapsed" /\ r.dispatched = {}

C20_ResponseDeliveredOnce ==
    \A m \in ResponseMessages :
        LET r == handle_incoming_message(host, [kind |-> "Response", body |-> m])
        IN (r.res = "Ok") =>
              /\ r.dispatched = {m.response.request}
              /\ m.response.request \in host.requests
              /\ ~request_commitment(r.host, m.response.request)
              /\ \A replay \in ResponseMessages :
                    (replay.response = m.response) =>
                       LET again == handle_incoming_message(
                                        r.host, [kind |-> "Response", body |-> replay])
                       IN again.res # "Ok" /\ again.dispatched = {}
                          /\ ((validate_state_machine(r.host, replay.proof) = "Ok")
                                 => again.res = "RequestCommitmentNotFound")

C20_ResponseDeliveredAndForgotten ==
    /\ last.op = "handle_incoming_message"
    /\ last.kind = "Response"
    /\ last.res = "Ok"
    /\ host.requests = {}
    /\ Elapsed("s1") > Delay("s1")

\* C21: whenever the timeout handler accepts a timeout message and dispatches
\* the timeout of its request, the commitment stored at the height of the
\* proof has a timestamp strictly greater than the timeout_timestamp of the
\* request; with a commitment timestamp at or below it the message fails
\* with RequestTimeoutVerificationFailed.
C21_TimeoutNeedsLaterCommitment ==
    \A m \in TimeoutMessages :
        LET r == handle_timeout_message(host, m)
            state == state_machine_commitment(host, m.timeout_proof.height)
        IN /\ (r.res = "Ok")
                 => (state # NoCommitment
                     /\ state.timestamp > m.request.timeout_timestamp)
           /\ (/\ validate_state_machine(host, m.timeout_proof) = "Ok"
               /\ request_commitment(host, m.request)
               /\ state # NoCommitment
               /\ state.timestamp <= m.request.timeout_timestamp)
                 => r.res = "RequestTimeoutVerificationFailed"

\* C22: the timeout handler dispatches a timeout only when the state proof
\* shows no value under the key of the request; a proof that shows a value
\* present is rejected and nothing is dispatched.
C22_TimeoutNeedsAbsence ==
    \A m \in TimeoutMessages :
        LET r == handle_timeout_message(host, m)
        IN /\ (r.dispatched # {}) => (m.timeout_proof.valid /\ ~m.timeout_proof.present)
           /\ m.timeout_proof.present => (r.res # "Ok" /\ r.dispatched = {})

\* C23: a timeout message for a request with no outbound commitment on the
\* host is rejected and nothing is dispatched; past the preamble it fails
\* with RequestCommitmentNotFound whatever the stored commitment, the host
\* time and the state proof are.
C23_TimeoutNeedsRequestCommitment ==
    \A m \in TimeoutMessages :
        LET r == handle_timeout_message(host, m)
        IN ~request_commitment(host, m.request)
           => /\ r.res # "Ok" /\ r.dispatched = {} /\ r.host = host
              /\ (validate_state_machine(host, m.timeout_proof) = "Ok")
                    => r.res = "RequestCommitmentNotFound"

C23_UncommittedTimeoutRejected ==
    /\ last.op = "handle_timeout_message"
    /\ last.res = "RequestCommitmentNotFound"
    /\ host.requests # {}
    /\ host.requests # Requests
    /\ \E m \in TimeoutMessages :
          /\ ~request_commitment(host, m.request)
          /\ validate_state_machine(host, m.timeout_proof) = "Ok"
          /\ state_machine_commitment(host, m.timeout_proof.height) = NoCommitment
          /\ ~m.timeout_proof.valid

\* C24: after a timeout message is handled successfully the outbound
\* commitment of its request is gone from the host, and a second timeout
\* message for that request fails and dispatches nothing.
C24_TimedOutOnce ==
    \A m \in TimeoutMessages :
        LET r == handle_timeout_message(host, m)
        IN (r.res = "Ok") =>
              /\ ~request_commitment(r.host, m.request)
              /\ \A replay \in TimeoutMessages :
                    (replay.request = m.request) =>
                       LET again == handle_timeout_message(r.host, replay)
                       IN again.res # "Ok" /\ again.dispatched = {}

\* C25: Request::timed_out(proof_timestamp) is true exactly when
\* proof_timestamp is strictly greater than the timeout timestamp of the
\* request, and false when the two are equal, for Post and Get requests.
C25_TimedOutIsStrict ==
    (last.op = "timed_out") => ((last.res = "true") <=> (last.height > last.stored))

\* C30: the buffer hash_request hands to keccak256 is injective on Post
\* requests: a buffer that was hashed belongs to one Post request only, and
\* two Post requests that differ in a field have different buffers.
C30_PostPreimageInjective ==
    (last.op = "hash_request" /\ last.kind = "Post")
    => \A a, b \in Posts :
          (/\ hash_request_buf([kind |-> "Post", body |-> a]) = last.res
           /\ hash_request_buf([kind |-> "Post", body |-> b]) = last.res)
          => a = b

\* C26: the entry point routes each of the five message variants to its own
\* handler, and never answers a FraudProof or a Timeout message with the
\* 'cannot handle message' error.
C26_EntryPointRoutesAllVariants ==
    \A m \in Messages :
        LET r == handle_incoming_message(host, m)
        IN /\ r.res # "CannotHandleMessage"
           /\ (m.kind = "Consensus") => r = update_client(host, m.body)
           /\ (m.kind = "FraudProof") => r = freeze_client(host, m.body)
           /\ (m.kind = "Request") => r = handle_request_message(host, m.body)
           /\ (m.kind = "Response") => r = handle_response_message(host, m.body)
           /\ (m.kind = "Timeout") => r = handle_timeout_message(host, m.body)

\* The messages that create a client, with up to two commitments each.
CreateMessages ==
    [consensus_client_id : ConsensusClientIds,
     consensus_state_id : ConsensusStateIds,
     consensus_state : {"t0"},
     state_machine_commitments : SeqsUpTo(GenesisCommitments, 2)]

\* The height of the last commitment a list supplies for a state machine id.
RECURSIVE LastHeightFor(_, _, _)
LastHeightFor(id, commitments, default) ==
    IF commitments = <<>> THEN default
    ELSE LastHeightFor(id, Tail(commitments),
                       IF Head(commitments).id = id THEN Head(commitments).height
                       ELSE default)

\* C27: create_client with a known consensus client id stores the initial
\* consensus state, maps the consensus state id to the client id, stores
\* every supplied commitment at its height, leaves the latest height of each
\* supplied id at the height of the commitment stored last for it, and sets
\* the update time to the host's timestamp; with an unknown client id it
\* fails and writes nothing.
C27_CreateClientStores ==
    \A m \in CreateMessages :
        LET r == create_client(host, m)
            sid == m.consensus_state_id
            cs == m.state_machine_commitments
        IN IF m.consensus_client_id \in KnownClients
           THEN /\ r.res = "Ok"
                /\ r.host.consensus_states[sid] = m.consensus_state
                /\ r.host.consensus_state_client[sid] = m.consensus_client_id
                /\ r.host.consensus_update_time[sid] = host.now
                /\ \A i \in 1..Len(cs) :
                      r.host.state_commitments[[id |-> cs[i].id, height |-> cs[i].height]]
                         = cs[i].commitment
                /\ \A id \in StateMachineIds :
                      r.host.latest_state_height[id]
                         = LastHeightFor(id, cs, host.latest_state_height[id])
           ELSE r.res # "Ok" /\ r.host = host

C27_ClientCreated ==
    /\ last.op = "create_client"
    /\ last.res = "Ok"
    /\ host.now > 0
    /\ host.consensus_update_time["s1"] = host.now
    /\ Recognised("s1")
    /\ \E id \in StateMachineIds : host.latest_state_height[id] # NoHeight

\* C28: a consensus message whose consensus state id maps to no consensus
\* client fails with ConsensusStateIdNotRecognized, whatever else is missing,
\* and leaves the host unchanged.
C28_UnrecognisedStateIdFirst ==
    \A m \in ConsensusMessages :
        LET r == update_client(host, m)
        IN (consensus_client_from_state_id(host, m.consensus_state_id) = NoClient)
           => (r.res = "ConsensusStateIdNotRecognized"
               /\ r.host = host /\ r.state_updates = {})

C28_UnrecognisedRejected ==
    /\ last.op = "update_client"
    /\ last.res = "ConsensusStateIdNotRecognized"
    /\ ~Recognised("s1")
    /\ host.consensus_states["s1"] = NoState
    /\ host.now > 0

\* The consensus client the hosts configure with a challenge period of zero.
ZeroChallengeClient == "eth"

Later(h, dt) == [h EXCEPT !.now = @ + dt]

\* C31: every successful update_client sets the update time of the consensus
\* state to the host timestamp, whether or not an intermediate state was
\* stored, and every consensus message for that state handled right after
\* it, at most challenge_period later, fails with ChallengePeriodNotElapsed.
C31_UpdateRestartsChallengeWindow ==
    \A m \in ConsensusMessages :
        LET sid == m.consensus_state_id
            r == update_client(host, m)
        IN (r.res = "Ok") =>
              /\ r.host.consensus_update_time[sid] = host.now
              /\ \A next \in ConsensusMessages, dt \in 0..Delay(sid) :
                    (next.consensus_state_id = sid) =>
                       LET again == update_client(Later(r.host, dt), next)
                       IN again.res = "ChallengePeriodNotElapsed"
                          /\ again.host = Later(r.host, dt)

C31_UpdateWithoutStoreRestartsWindow ==
    /\ last.op = "update_client"
    /\ last.res = "Ok"
    /\ last.stored = 0
    /\ host.consensus_state_client["s1"] = "mock"
    /\ host.consensus_update_time["s1"] = host.now
    /\ host.now > 1

\* The heights that hold a commitment in host b and held none in host a.
NewlyStored(a, b) ==
    { sh \in StateMachineHeights :
        a.state_commitments[sh] = NoCommitment /\ b.state_commitments[sh] # NoCommitment }

\* C32: the state_updates of a successful update_client hold exactly one pair
\* (previous latest height, new height) for each commitment stored by the
\* call and none for a skipped intermediate state; in every pair both heights
\* carry the same state machine id and the previous height, the latest
\* height of the id just before the store, is at most the new one.
C32_StateUpdatesMatchStores ==
    \A m \in ConsensusMessages :
        LET r == update_client(host, m)
            newly == NewlyStored(host, r.host)
        IN (r.res = "Ok") =>
              /\ { u[2] : u \in r.state_updates } = newly
              /\ Cardinality(r.state_updates) = Cardinality(newly)
              /\ \A u \in r.state_updates :
                    /\ u[1].id = u[2].id
                    /\ u[1].height <= u[2].height
                    /\ u[1].height =
                          MaxOf({latest_commitment_height(host, u[2].id)}
                                \cup { sh.height : sh \in { t \in newly :
                                          t.id = u[2].id /\ t.height < u[2].height } })

C32_OnePairStoredOneSkipped ==
    /\ last.op = "update_client"
    /\ last.res = "Ok"
    /\ last.stored = 1
    /\ last.skipped = 1
    /\ \E id \in StateMachineIds : host.frozen_state_machines[id] # NoHeight
    /\ \E id \in StateMachineIds :
          /\ host.latest_state_height[id] = 2
          /\ host.state_commitments[[id |-> id, height |-> 1]] # NoCommitment

\* C33: update_client fails fast in the order frozen, challenge, expiry,
\* proof: a frozen consensus state gives the frozen-client error also inside
\* the challenge period; an unfrozen one inside the challenge period gives
\* ChallengePeriodNotElapsed also when the unbonding period is exceeded; past
\* the challenge period an expired one gives UnbondingPeriodElapsed; and the
\* proof decides the outcome only when none of the three checks fails.
C33_UpdateFailsFastInOrder ==
    \A m \in ConsensusMessages :
        LET sid == m.consensus_state_id
            r == update_client(host, m)
        IN (/\ consensus_client(host.consensus_state_client[sid])
            /\ host.consensus_states[sid] # NoState)
           => /\ Frozen(sid) => r.res = "FrozenConsensusClient"
              /\ (~Frozen(sid) /\ Elapsed(sid) <= Delay(sid))
                    => r.res = "ChallengePeriodNotElapsed"
              /\ (~Frozen(sid) /\ Elapsed(sid) > Delay(sid)
                             /\ Elapsed(sid) > UnbondingPeriod)
                    => r.res = "UnbondingPeriodElapsed"
              /\ (r.res \in {"Ok", "ConsensusProofVerificationFailed"})
                    => (/\ ~Frozen(sid)
                        /\ Elapsed(sid) > Delay(sid)
                        /\ Elapsed(sid) <= UnbondingPeriod
                        /\ (r.res = "Ok") <=> m.consensus_proof.valid)

C33_ChallengeReportedAlthoughExpired ==
    /\ last.op = "update_client"
    /\ last.res = "ChallengePeriodNotElapsed"
    /\ host.consensus_state_client["s1"] \in DummyClients
    /\ ~Frozen("s1")
    /\ Elapsed("s1") > UnbondingPeriod
    /\ Elapsed("s1") <= Delay("s1")

\* C34: when update_client returns an error, whichever check raised it up to
\* and including the verification of the proof, nothing was written: the
\* consensus state, the update time, the commitments and the latest heights
\* are those of before, and no transition is reported.
C34_FailedUpdateWritesNothing ==
    \A m \in ConsensusMessages :
        LET r == update_client(host, m)
        IN (r.res # "Ok") =>
              /\ r.res \in {"ConsensusStateIdNotRecognized", "UnknownConsensusClient",
                             "ConsensusStateNotFound", "ImplementationSpecific",
                             "FrozenConsensusClient", "ChallengePeriodNotElapsed",
                             "UnbondingPeriodElapsed", "ConsensusProofVerificationFailed"}
              /\ r.host.consensus_states = host.consensus_states
              /\ r.host.consensus_update_time = host.consensus_update_time
              /\ r.host.state_commitments = host.state_commitments
              /\ r.host.latest_state_height = host.latest_state_height
              /\ r.host = host
              /\ r.state_updates = {}

C34_ProofRejectedNothingWritten ==
    /\ last.op = "update_client"
    /\ last.res = "ConsensusProofVerificationFailed"
    /\ host.consensus_states["s1"] = "t0"
    /\ Elapsed("s1") > Delay("s1")
    /\ \A id \in StateMachineIds : host.latest_state_height[id] = NoHeight

\* C35: in every reachable state the stored update time of every consensus
\* state is at most the host timestamp, so the subtraction
\* now - update_time of the challenge checks is never negative.
C35_UpdateTimeNotInFuture ==
    \A sid \in ConsensusStateIds :
        (host.consensus_update_time[sid] # NoTime)
           => (host.consensus_update_time[sid] <= host.now /\ Elapsed(sid) >= 0)

C35_UpdateTimeInThePast ==
    /\ last.op = "tick"
    /\ Frozen("s1")
    /\ host.consensus_states["s1"] = "t1"
    /\ host.consensus_update_time["s1"] > 0
    /\ host.consensus_update_time["s1"] < host.now

\* C36: in every state reached through create_client and update_client, a
\* latest commitment height recorded for a state machine id has a state
\* commitment stored at that id and height.
C36_LatestHeightHasCommitment ==
    \A id \in StateMachineIds :
        (host.latest_state_height[id] # NoHeight)
           => host.state_commitments[[id |-> id, height |-> host.latest_state_height[id]]]
                 # NoCommitment

C36_LatestHeightsRecorded ==
    /\ last.op = "update_client"
    /\ last.stored = 2
    /\ \A id \in StateMachineIds : host.latest_state_height[id] # NoHeight
    /\ \E id \in StateMachineIds :
          /\ host.latest_state_height[id] = 2
          /\ host.state_commitments[[id |-> id, height |-> 1]] = NoCommitment

\* C37: the challenge window belongs to the consensus state, not to a height:
\* right after a successful consensus update, a Request, a Response and a
\* Timeout message proven against a stored height of that consensus state,
\* acceptable to the preamble before the update, fail with
\* ChallengePeriodNotElapsed for as long as at most challenge_period has
\* elapsed since the update, and pass the preamble again one second later.
\* The updates are those of the consensus messages the entry point receives.
C37_UpdateClosesWindowForOldHeights ==
    \A cm \in { m.body : m \in { x \in Messages : x.kind = "Consensus" } } :
        LET sid == cm.consensus_state_id
            r == update_client(host, cm)
        IN (r.res = "Ok") =>
              \A p \in Proofs :
                 (/\ ProofStateId(p) = sid
                  /\ state_machine_commitment(host, p.height) # NoCommitment
                  /\ validate_state_machine(host, p) = "Ok")
                 => /\ \A dt \in 0..Delay(sid) :
                          LET h == Later(r.host, dt) IN
                          /\ \A m \in RequestMessages : m.proof = p =>
                                handle_request_message(h, m).res = "ChallengePeriodNotElapsed"
                          /\ \A m \in ResponseMessages : m.proof = p =>
                                handle_response_message(h, m).res = "ChallengePeriodNotElapsed"
                          /\ \A m \in TimeoutMessages : m.timeout_proof.height = p.height =>
                                handle_timeout_message(h, m).res = "ChallengePeriodNotElapsed"
                    /\ validate_state_machine(Later(r.host, Delay(sid) + 1), p) = "Ok"

C37_OldHeightRejectedAfterUpdate ==
    /\ last.op = "handle_incoming_message"
    /\ last.kind = "Request"
    /\ last.res = "ChallengePeriodNotElapsed"
    /\ host.consensus_states["s1"] = "t1"
    /\ host.consensus_state_client["s1"] = "mock"
    /\ Elapsed("s1") = Delay("s1")
    /\ host.now = MaxTime
    /\ \E sh \in StateMachineHeights :
          sh.height = last.height /\ host.state_commitments[sh] # NoCommitment

\* C38: for every outbound request at most one of the two outcomes happens,
\* in whichever order the messages arrive: once its timeout was dispatched no
\* response to it is delivered, and once a response to it was delivered its
\* timeout is not dispatched.
C38_ResponseOrTimeoutNotBoth ==
    \A tm \in TimeoutMessages, rm \in ResponseMessages :
        (rm.response.request = tm.request) =>
           LET t == handle_timeout_message(host, tm)
               d == handle_response_message(host, rm)
           IN /\ (t.res = "Ok")
                    => \A dt \in 0..(MaxTime - host.now) :
                          handle_response_message(Later(t.host, dt), rm).dispatched = {}
              /\ (d.res = "Ok")
                    => \A dt \in 0..(MaxTime - host.now) :
                          handle_timeout_message(Later(d.host, dt), tm).dispatched = {}

\* C39: the fraud-proof handler is gated by neither the challenge period, the
\* unbonding period nor the frozen flag: a fraud proof that verifies for a
\* stored consensus state is accepted inside the challenge window, after
\* expiry and when the state is frozen already, and each time it leaves the
\* state frozen with the update time set to now.
C39_FraudProofNotGated ==
    \A m \in FraudProofMessages, dt \in 0..(MaxTime - host.now) :
        LET sid == m.consensus_state_id
            h == Later(host, dt)
            r == freeze_client(h, m)
            again == freeze_client(Later(r.host, dt), m)
        IN (m.valid /\ consensus_client(host.consensus_state_client[sid])) =>
              /\ r.res = "FrozenClient"
              /\ again.res = "FrozenClient"
              /\ sid \in again.host.frozen_consensus_clients
              /\ again.host.consensus_update_time[sid] = host.now + dt + dt

C39_FrozenAndExpiredFrozenAgain ==
    /\ last.op = "freeze_client"
    /\ last.res = "FrozenClient"
    /\ last.stored = 1
    /\ last.height > UnbondingPeriod
    /\ last.height <= Delay("s1")
    /\ Frozen("s1")
    /\ host.consensus_update_time["s1"] = host.now

\* C40: when freeze_client fails, because the state id maps to no client, the
\* consensus state is missing or the fraud proof does not verify, the call
\* freezes nothing and leaves the update time, and the whole host, as it was.
C40_FailedFreezeChangesNothing ==
    \A m \in FraudProofMessages :
        LET sid == m.consensus_state_id
            r == freeze_client(host, m)
        IN /\ (r.res # "FrozenClient") =>
                 /\ r.host.frozen_consensus_clients = host.frozen_consensus_clients
                 /\ r.host.consensus_update_time = host.consensus_update_time
                 /\ r.host = host
           /\ (\/ ~m.valid
               \/ ~consensus_client(host.consensus_state_client[sid])
               \/ host.consensus_states[sid] = NoState)
                 => r.res # "FrozenClient"

C40_FraudProofRejected ==
    /\ last.op = "freeze_client"
    /\ last.res = "ImplementationSpecific"
    /\ Recognised("s1")
    /\ ~Frozen("s1")
    /\ host.consensus_states["s1"] = "t1"
    /\ host.consensus_update_time["s1"] < host.now
====
